---- MODULE Spec2Model ----
(***************************************************************************)
(* Model of jit_profiling.ipynb: a linear notebook that times and          *)
(* memory-samples one matrix multiplication three times (directly, through *)
(* a fresh jax.jit wrapper, and through the same wrapper again) and prints *)
(* the deltas.  Every statement of the code cells is one step.  jax.jit is *)
(* modelled as the notebook describes it: a per-handle cache from the      *)
(* arguments' shape/dtype signature to a compiled artifact.                *)
(***************************************************************************)
EXTENDS Integers, Sequences, FiniteSets, TLC

(* ---------------------------------------------------------------- bounds *)

\* time.time() readings range over 0..MaxClock
MaxClock == 1
\* get_memory_usage_mb() readings range over 0..MaxRss
MaxRss == 1
\* calls made through one handle in the handle harness (SpecJit)
MaxCalls == 3

(* ------------------------------------------------------- program values *)

\* Cell 3: size = 2048
size == 2048

\* a Python name that is not bound yet is <<>>, a bound one is <<value>>
Unbound == <<>>
Bound(v) == <<v>>
Val(b) == b[1]

\* jnp.ones(shape, dtype): a dense array filled with the constant 1
Ones(shape, dtype) == [shape |-> shape, dtype |-> dtype, fill |-> 1]

\* jnp.dot's result element type (float32 absorbs int32)
Promote(d1, d2) == IF d1 = d2 THEN d1 ELSE "float32"

\* jnp.dot needs the inner dimensions to agree
Valid(a, b) == a.shape[2] = b.shape[1]

\* the product of two constant-filled arrays, on operands of shapes sa, sb
\* and element types da, db: every element is the sum of sa[2] products
DotOf(sa, da, sb, db, fa, fb) ==
    [shape |-> <<sa[1], sb[2]>>, dtype |-> Promote(da, db), fill |-> fa * fb * sa[2]]

\* def matmul(x, y): return jnp.dot(x, y)
matmul(a, b) == DotOf(a.shape, a.dtype, b.shape, b.dtype, a.fill, b.fill)

(* --------------------------------------------------------------- jax.jit *)

\* the shape/dtype signature of an argument tuple
Signature(a, b) ==
    <<[shape |-> a.shape, dtype |-> a.dtype], [shape |-> b.shape, dtype |-> b.dtype]>>

\* faulty variant: a cache keyed by element types only
CacheKeyDtypeOnly(a, b) == <<a.dtype, b.dtype>>

\* the key under which a handle caches its compiled artifact
CacheKey(a, b) == Signature(a, b)

\* compiling: an executable specialised to one signature
Compile(fn, sig) == [fn |-> fn, sig |-> sig]

\* faulty variant: the artifact replays a result computed on all-ones operands
ExecuteReplay(art, a, b) ==
    DotOf(art.sig[1].shape, art.sig[1].dtype, art.sig[2].shape, art.sig[2].dtype, 1, 1)

\* running an artifact: the shapes and element types are the ones it was
\* compiled for, the data is the arguments'
Execute(art, a, b) ==
    DotOf(art.sig[1].shape, art.sig[1].dtype, art.sig[2].shape, art.sig[2].dtype,
          a.fill, b.fill)

\* faulty variant: a cache that holds the latest artifact only
StoreLatestOnly(cache, key, art) == [k \in {key} |-> art]

\* the cache after a call: the entry is added, nothing is removed
Store(cache, key, art) ==
    [k \in DOMAIN cache \cup {key} |-> IF k = key THEN art ELSE cache[k]]

\* jax.jit(fn): a fresh handle with an empty cache
Jit(fn, id) == [id |-> id, fn |-> fn, cache |-> <<>>]

\* one call through a handle: compile on a miss, reuse on a hit
JitCall(h, a, b) ==
    LET key == CacheKey(a, b)
        hit == key \in DOMAIN h.cache
        art == IF hit THEN h.cache[key] ELSE Compile(h.fn, Signature(a, b))
    IN  [handle   |-> [h EXCEPT !.cache = Store(h.cache, key, art)],
         compiled |-> ~hit,
         artifact |-> art,
         result   |-> Execute(art, a, b)]

(* ------------------------------------------------------------ the state *)

VARIABLES
    pc,          \* index in Program of the next statement
    status,      \* "running", "done", "failed" (notebook); "harness" (SpecJit)
    x, y,        \* Cell 3's inputs
    start_mem, start_time, end_time, end_mem,   \* the samples (globals, reused)
    pending,     \* the dispatched, not yet materialised result of the call
    out,         \* the materialised result
    jit_matmul,  \* the handle jax.jit(matmul) returned
    nhandles,    \* how many handles jax.jit has constructed
    stdout,      \* the lines printed
    display,     \* the rich display values of the cells
    error,       \* the exception that reached the notebook's caller
    calls,       \* the calls made through jit_matmul, in order
    trace        \* every statement executed, in order

vars == <<pc, status, x, y, start_mem, start_time, end_time, end_mem, pending, out,
          jit_matmul, nhandles, stdout, display, error, calls, trace>>

(* ---------------------------------------------------------- the notebook *)

Stmt(c, s) == [cell |-> c, stmt |-> s]

\* Cell 1: imports, then print("JAX Device:", ...)
Cell1 == <<Stmt(1, "print_device")>>

\* Cell 3: def matmul, size, x, y
Cell3 == <<Stmt(3, "inputs")>>

\* Cell 4: Profile Un-JITed Execution
Cell4 ==
    <<Stmt(4, "gc"), Stmt(4, "start_mem"), Stmt(4, "start_time"),
      Stmt(4, "call"), Stmt(4, "block"),
      Stmt(4, "end_time"), Stmt(4, "end_mem"),
      Stmt(4, "print_time"), Stmt(4, "print_mem")>>

\* faulty variant: jax.jit(matmul) moved inside the timed interval
Cell5JitTimed ==
    <<Stmt(5, "gc"), Stmt(5, "start_mem"), Stmt(5, "start_time"), Stmt(5, "jit"),
      Stmt(5, "call"), Stmt(5, "block"),
      Stmt(5, "end_time"), Stmt(5, "end_mem"),
      Stmt(5, "print_time"), Stmt(5, "print_mem")>>

\* Cell 5: Profile JIT-Compiled Execution (First Call Includes Compilation)
Cell5 ==
    <<Stmt(5, "gc"), Stmt(5, "jit"), Stmt(5, "start_mem"), Stmt(5, "start_time"),
      Stmt(5, "call"), Stmt(5, "block"),
      Stmt(5, "end_time"), Stmt(5, "end_mem"),
      Stmt(5, "print_time"), Stmt(5, "print_mem")>>

\* faulty variant: the call of Cell 6 without .block_until_ready()
Cell6NoBlock ==
    <<Stmt(6, "gc"), Stmt(6, "start_mem"), Stmt(6, "start_time"),
      Stmt(6, "call"),
      Stmt(6, "end_time"), Stmt(6, "end_mem"),
      Stmt(6, "print_time"), Stmt(6, "print_mem")>>

\* faulty variant: Cell 6 wraps matmul again instead of reusing Cell 5's handle
Cell6Rewrap ==
    <<Stmt(6, "gc"), Stmt(6, "jit"), Stmt(6, "start_mem"), Stmt(6, "start_time"),
      Stmt(6, "call"), Stmt(6, "block"),
      Stmt(6, "end_time"), Stmt(6, "end_mem"),
      Stmt(6, "print_time"), Stmt(6, "print_mem")>>

\* Cell 6: Profile JIT-Compiled Execution (Second Call Shows Runtime Gains)
Cell6 ==
    <<Stmt(6, "gc"), Stmt(6, "start_mem"), Stmt(6, "start_time"),
      Stmt(6, "call"), Stmt(6, "block"),
      Stmt(6, "end_time"), Stmt(6, "end_mem"),
      Stmt(6, "print_time"), Stmt(6, "print_mem")>>

\* Cell 7: Markdown("""...""") as the cell's value
Cell7 == <<Stmt(7, "markdown")>>

\* the code cells in execution order
Program == Cell1 \o Cell3 \o Cell4 \o Cell5 \o Cell6 \o Cell7

\* the function a cell measures: matmul in Cell 4, jit_matmul in Cells 5 and 6
Callee(c) == IF c = 4 THEN "matmul" ELSE "jit_matmul"

TimeLabel(c) ==
    CASE c = 4 -> "Un-JITed Execution Time:"
      [] c = 5 -> "JITed (First Call) Execution Time:"
      [] OTHER -> "JITed (Second Call) Execution Time:"

Event(c, op) == [cell |-> c, op |-> op, fn |-> ""]
CallEvent(c, fn) == [cell |-> c, op |-> "invoke", fn |-> fn]

At(s) == status = "running" /\ Program[pc].stmt = s
Cur == Program[pc].cell

\* control passes to the next statement; past the last one the run is done
Advance ==
    /\ pc' = pc + 1
    /\ status' = IF pc + 1 > Len(Program) THEN "done" ELSE "running"

\* faulty variant: the failure is caught around the call statement and the cell goes on
RaiseSwallowed(exc) ==
    /\ pc' = IF Program[pc].stmt = "call" /\ Program[pc + 1].stmt = "block"
             THEN pc + 2 ELSE pc + 1
    /\ status' = "running"
    /\ error' = error
    /\ trace' = Append(trace, Event(Cur, "raise"))

\* no statement is inside try/except: an exception leaves the cell and ends the run
Raise(exc) ==
    /\ pc' = pc
    /\ status' = "failed"
    /\ error' = Bound(exc)
    /\ trace' = Append(trace, Event(Cur, "raise"))

\* the exceptions a call can end in
ShapeError(c) == [type |-> "TypeError", cell |-> c]
RuntimeFault(c) == [type |-> "XlaRuntimeError", cell |-> c]

Init ==
    /\ pc = 1
    /\ status = "running"
    /\ x = Unbound /\ y = Unbound
    /\ start_mem = Unbound /\ start_time = Unbound
    /\ end_time = Unbound /\ end_mem = Unbound
    /\ pending = Unbound /\ out = Unbound
    /\ jit_matmul = Unbound
    /\ nhandles = 0
    /\ stdout = <<>>
    /\ display = <<>>
    /\ error = Unbound
    /\ calls = <<>>
    /\ trace = <<>>

\* print("JAX Device:", jax.extend.backend.get_backend().platform)
PrintDevice ==
    /\ At("print_device")
    /\ stdout' = Append(stdout, [cell |-> Cur, label |-> "JAX Device:", value |-> "cpu"])
    /\ trace' = Append(trace, Event(Cur, "print_device"))
    /\ Advance
    /\ UNCHANGED <<x, y, start_mem, start_time, end_time, end_mem, pending, out,
                   jit_matmul, nhandles, display, error, calls>>

\* x = jnp.ones((size, size), dtype=jnp.float32); y likewise
Inputs ==
    /\ At("inputs")
    /\ x' = Bound(Ones(<<size, size>>, "float32"))
    /\ y' = Bound(Ones(<<size, size>>, "float32"))
    /\ trace' = Append(trace, Event(Cur, "inputs"))
    /\ Advance
    /\ UNCHANGED <<start_mem, start_time, end_time, end_mem, pending, out,
                   jit_matmul, nhandles, stdout, display, error, calls>>

\* gc.collect()
Gc ==
    /\ At("gc")
    /\ trace' = Append(trace, Event(Cur, "gc"))
    /\ Advance
    /\ UNCHANGED <<x, y, start_mem, start_time, end_time, end_mem, pending, out,
                   jit_matmul, nhandles, stdout, display, error, calls>>

\* jit_matmul = jax.jit(matmul)
JitWrap ==
    /\ At("jit")
    /\ jit_matmul' = Bound(Jit("matmul", nhandles + 1))
    /\ nhandles' = nhandles + 1
    /\ trace' = Append(trace, Event(Cur, "jit"))
    /\ Advance
    /\ UNCHANGED <<x, y, start_mem, start_time, end_time, end_mem, pending, out,
                   stdout, display, error, calls>>

\* start_mem = get_memory_usage_mb(): whatever the process's RSS is
StartMem ==
    /\ At("start_mem")
    /\ \E m \in 0..MaxRss : start_mem' = Bound(m)
    /\ trace' = Append(trace, Event(Cur, "start_mem"))
    /\ Advance
    /\ UNCHANGED <<x, y, start_time, end_time, end_mem, pending, out,
                   jit_matmul, nhandles, stdout, display, error, calls>>

\* start_time = time.time(): the wall clock, which is not monotonic (it reads
\* lower than before when the system clock is set back between two readings)
StartTime ==
    /\ At("start_time")
    /\ \E t \in 0..MaxClock : start_time' = Bound(t)
    /\ trace' = Append(trace, Event(Cur, "start_time"))
    /\ Advance
    /\ UNCHANGED <<x, y, start_mem, end_time, end_mem, pending, out,
                   jit_matmul, nhandles, stdout, display, error, calls>>

\* matmul(x, y) or jit_matmul(x, y): the call dispatches the computation; through
\* the handle it first compiles on a miss.  It may raise.
Call ==
    /\ At("call")
    /\ \E fault \in BOOLEAN :
        IF fault \/ ~Valid(Val(x), Val(y))
        THEN /\ Raise(IF fault THEN RuntimeFault(Cur) ELSE ShapeError(Cur))
             /\ UNCHANGED <<pending, jit_matmul, calls>>
        ELSE /\ Advance
             /\ error' = error
             /\ IF Callee(Cur) = "matmul"
                THEN /\ pending' = Bound(matmul(Val(x), Val(y)))
                     /\ trace' = Append(trace, CallEvent(Cur, "matmul"))
                     /\ UNCHANGED <<jit_matmul, calls>>
                ELSE LET r == JitCall(Val(jit_matmul), Val(x), Val(y))
                     IN  /\ pending' = Bound(r.result)
                         /\ jit_matmul' = Bound(r.handle)
                         /\ calls' = Append(calls,
                                [cell |-> Cur, x |-> Val(x), y |-> Val(y),
                                 handle |-> r.handle.id, compiled |-> r.compiled,
                                 artifact |-> r.artifact, result |-> r.result])
                         /\ trace' = trace \o <<CallEvent(Cur, "jit_matmul")>>
                                \o (IF r.compiled THEN <<Event(Cur, "compile")>> ELSE <<>>)
    /\ UNCHANGED <<x, y, start_mem, start_time, end_time, end_mem, out,
                   nhandles, stdout, display>>

\* .block_until_ready(), then out = ...: waits until the result is materialised
Block ==
    /\ At("block")
    /\ \E fault \in BOOLEAN :
        IF fault
        THEN /\ Raise(RuntimeFault(Cur))
             /\ UNCHANGED <<pending, out>>
        ELSE /\ Advance
             /\ error' = error
             /\ out' = pending
             /\ pending' = Unbound
             /\ trace' = Append(trace, Event(Cur, "ready"))
    /\ UNCHANGED <<x, y, start_mem, start_time, end_time, end_mem,
                   jit_matmul, nhandles, stdout, display, calls>>

\* end_time = time.time()
EndTime ==
    /\ At("end_time")
    /\ \E t \in 0..MaxClock : end_time' = Bound(t)
    /\ trace' = Append(trace, Event(Cur, "end_time"))
    /\ Advance
    /\ UNCHANGED <<x, y, start_mem, start_time, end_mem, pending, out,
                   jit_matmul, nhandles, stdout, display, error, calls>>

\* end_mem = get_memory_usage_mb()
EndMem ==
    /\ At("end_mem")
    /\ \E m \in 0..MaxRss : end_mem' = Bound(m)
    /\ trace' = Append(trace, Event(Cur, "end_mem"))
    /\ Advance
    /\ UNCHANGED <<x, y, start_mem, start_time, end_time, pending, out,
                   jit_matmul, nhandles, stdout, display, error, calls>>

\* print("... Execution Time:", end_time - start_time, "seconds")
PrintTime ==
    /\ At("print_time")
    /\ stdout' = Append(stdout, [cell |-> Cur, label |-> TimeLabel(Cur),
                                 value |-> Val(end_time) - Val(start_time)])
    /\ trace' = Append(trace, Event(Cur, "print_time"))
    /\ Advance
    /\ UNCHANGED <<x, y, start_mem, start_time, end_time, end_mem, pending, out,
                   jit_matmul, nhandles, display, error, calls>>

\* print("Memory Usage:", end_mem - start_mem, "MB")
PrintMem ==
    /\ At("print_mem")
    /\ stdout' = Append(stdout, [cell |-> Cur, label |-> "Memory Usage:",
                                 value |-> Val(end_mem) - Val(start_mem)])
    /\ trace' = Append(trace, Event(Cur, "print_mem"))
    /\ Advance
    /\ UNCHANGED <<x, y, start_mem, start_time, end_time, end_mem, pending, out,
                   jit_matmul, nhandles, display, error, calls>>

\* faulty variant: the summary is printed instead of being the cell's value
ShowMarkdownPrinted ==
    /\ At("markdown")
    /\ stdout' = Append(stdout, [cell |-> Cur, label |-> "Interpretation", value |-> ""])
    /\ trace' = Append(trace, Event(Cur, "markdown"))
    /\ Advance
    /\ UNCHANGED <<x, y, start_mem, start_time, end_time, end_mem, pending, out,
                   jit_matmul, nhandles, display, error, calls>>

\* Markdown("""..."""): the value of the last cell, shown as rich output
ShowMarkdown ==
    /\ At("markdown")
    /\ display' = Append(display, [cell |-> Cur, mime |-> "text/markdown"])
    /\ trace' = Append(trace, Event(Cur, "markdown"))
    /\ Advance
    /\ UNCHANGED <<x, y, start_mem, start_time, end_time, end_mem, pending, out,
                   jit_matmul, nhandles, stdout, error, calls>>

Next ==
    \/ PrintDevice
    \/ Inputs
    \/ Gc
    \/ JitWrap
    \/ StartMem
    \/ StartTime
    \/ Call
    \/ Block
    \/ EndTime
    \/ EndMem
    \/ PrintTime
    \/ PrintMem
    \/ ShowMarkdown

Spec == Init /\ [][Next]_vars

(* ------------------------------------- one handle under any valid calls *)

\* the shapes, element types and fill values the harness draws arguments from
Shapes == {<<size, size>>, <<2 * size, 2 * size>>}
Dtypes == {"float32", "int32"}
ArgsX == {[shape |-> s, dtype |-> d, fill |-> f] : s \in Shapes, d \in Dtypes, f \in {1, 2}}
ArgsY == {Ones(s, d) : s \in Shapes, d \in Dtypes}

\* the state right after jit_matmul = jax.jit(matmul)
InitJit ==
    /\ pc = 1
    /\ status = "harness"
    /\ x = Unbound /\ y = Unbound
    /\ start_mem = Unbound /\ start_time = Unbound
    /\ end_time = Unbound /\ end_mem = Unbound
    /\ pending = Unbound /\ out = Unbound
    /\ jit_matmul = Bound(Jit("matmul", 1))
    /\ nhandles = 1
    /\ stdout = <<>>
    /\ display = <<>>
    /\ error = Unbound
    /\ calls = <<>>
    /\ trace = <<>>

\* out = jit_matmul(a, b).block_until_ready() for any valid argument tuple
HandleCall ==
    /\ status = "harness"
    /\ Len(calls) < MaxCalls
    /\ \E a \in ArgsX, b \in ArgsY :
        /\ Valid(a, b)
        /\ LET r == JitCall(Val(jit_matmul), a, b)
           IN  /\ jit_matmul' = Bound(r.handle)
               /\ out' = Bound(r.result)
               /\ calls' = Append(calls,
                      [cell |-> 0, x |-> a, y |-> b,
                       handle |-> r.handle.id, compiled |-> r.compiled,
                       artifact |-> r.artifact, result |-> r.result])
    /\ UNCHANGED <<pc, status, x, y, start_mem, start_time, end_time, end_mem,
                   pending, nhandles, stdout, display, error, trace>>

NextJit == HandleCall

SpecJit == InitJit /\ [][NextJit]_vars

(* ------------------------------------------------------------ the claims *)

SigOf(c) == Signature(c.x, c.y)
SeenBefore(i) == \E j \in 1..(i - 1) : SigOf(calls[j]) = SigOf(calls[i])

Warm2048 == Signature(Ones(<<size, size>>, "float32"), Ones(<<size, size>>, "float32"))

Invokes == SelectSeq(trace, LAMBDA e : e.op = "invoke")
IsPrefix(s, t) == Len(s) <= Len(t) /\ \A i \in 1..Len(s) : s[i] = t[i]

ThreeMeasurements ==
    <<CallEvent(4, "matmul"), CallEvent(5, "jit_matmul"), CallEvent(6, "jit_matmul")>>

\* every compile step of the run, with the time samples of Cell 5
CompilesAndColdInterval ==
    SelectSeq(trace, LAMBDA e :
        e.op = "compile" \/ (e.cell = 5 /\ e.op \in {"start_time", "end_time"}))

\* C4: a run measures the raw function, then the wrapper's first call, then the
\* wrapper's second call on the same arguments, and nothing else; the only
\* compile step lies inside the second measurement's timed interval.
C4_ThreeMeasurementsInOrder ==
    LET inv == Invokes
        comp == CompilesAndColdInterval
    IN  /\ IsPrefix(inv, ThreeMeasurements)
        /\ IsPrefix(comp, <<Event(5, "start_time"), Event(5, "compile"),
                            Event(5, "end_time")>>)
        /\ status = "done" =>
            /\ inv = ThreeMeasurements
            /\ Len(comp) = 3
            /\ Len(calls) = 2
            /\ calls[1].x = calls[2].x /\ calls[1].y = calls[2].y
            /\ calls[1].compiled /\ ~calls[2].compiled

C4_Witness ==
    /\ status = "done"
    /\ Len(Invokes) = 3
    /\ Len(SelectSeq(trace, LAMBDA e : e.op = "compile")) = 1

MeasureOrder == <<"gc", "start_mem", "start_time", "invoke", "ready", "end_time", "end_mem">>
MeasureOps == {MeasureOrder[i] : i \in 1..Len(MeasureOrder)}
StepsOf(c) == SelectSeq(trace, LAMBDA e : e.cell = c /\ e.op \in MeasureOps)
OpsOf(c) == LET s == StepsOf(c) IN [i \in 1..Len(s) |-> s[i].op]

\* C5: in each measurement the steps run in the order gc, start memory, start
\* time, invoke, result materialised, end time, end memory (each once); so no
\* end sample is taken before the result is materialised.
C5_MeasurementStepOrder ==
    \A c \in {4, 5, 6} :
        LET ops == OpsOf(c)
        IN  /\ IsPrefix(ops, MeasureOrder)
            /\ (status = "done" \/ (status = "running" /\ Cur > c)) => ops = MeasureOrder

C5_Witness == status = "done" /\ \A c \in {4, 5, 6} : OpsOf(c) = MeasureOrder

TimeLabels == {TimeLabel(c) : c \in {4, 5, 6}}

\* C6: no measurement reports a negative elapsed time, whatever the clock does.
C6_ElapsedNeverNegative ==
    \A i \in 1..Len(stdout) : stdout[i].label \in TimeLabels => stdout[i].value >= 0

Labels == [i \in 1..Len(stdout) |-> stdout[i].label]

\* C8 as stated: a complete run prints exactly four lines, three measurement
\* lines and then a summary line.
C8_FourLines == status = "done" => Len(stdout) = 4

\* C8 amended: a complete run prints exactly seven lines: the device line, then
\* for each measurement its time line and its memory line; the summary is not
\* printed, it is the last cell's rich display value.
C8_SevenLines ==
    /\ Len(stdout) <= 7
    /\ status = "done" =>
        /\ Labels = <<"JAX Device:",
                      TimeLabel(4), "Memory Usage:",
                      TimeLabel(5), "Memory Usage:",
                      TimeLabel(6), "Memory Usage:">>
        /\ display = <<[cell |-> 7, mime |-> "text/markdown"]>>

C8_Witness == status = "done" /\ Len(stdout) = 7 /\ Len(display) = 1

Raises == SelectSeq(trace, LAMBDA e : e.op = "raise")

\* C9: a failure of the measured function ends the run at once: the exception
\* raised is the one that reaches the caller, the call is not repeated, nothing
\* runs afterwards, and neither that measurement nor a later one prints a line.
C9_FailurePropagates ==
    Len(Raises) > 0 =>
        LET c == Raises[1].cell
        IN  /\ status = "failed"
            /\ Len(Raises) = 1
            /\ trace[Len(trace)] = Raises[1]
            /\ error \in {Bound(RuntimeFault(c)), Bound(ShapeError(c))}
            /\ Len(SelectSeq(trace, LAMBDA e : e.cell = c /\ e.op = "invoke")) <= 1
            /\ \A i \in 1..Len(stdout) : stdout[i].cell < c
            /\ ~ENABLED Next

\* the warm call failed: two measurements printed, the third did not
C9_Witness ==
    /\ status = "failed"
    /\ Val(error).cell = 6
    /\ Len(stdout) = 5

\* every jax.jit(...) of the run, with Cell 5's gc pass and start samples
WrapsAndColdStart ==
    SelectSeq(trace, LAMBDA e :
        e.op = "jit" \/ (e.cell = 5 /\ e.op \in {"gc", "start_mem", "start_time"}))

\* C10: jax.jit(matmul) runs once per run, in Cell 5 right after gc.collect()
\* and before the start samples, and the cold and the warm call go through
\* that one handle.
C10_WrapOnceOutsideInterval ==
    /\ nhandles <= 1
    /\ IsPrefix(WrapsAndColdStart,
                <<Event(5, "gc"), Event(5, "jit"), Event(5, "start_mem"),
                  Event(5, "start_time")>>)
    /\ \A i \in 1..Len(calls) : calls[i].handle = 1 /\ Val(jit_matmul).id = 1
    /\ status = "done" =>
        /\ nhandles = 1
        /\ Len(WrapsAndColdStart) = 4
        /\ Len(calls) = 2
        /\ calls[1].cell = 5 /\ calls[2].cell = 6
        /\ calls[1].handle = calls[2].handle

C10_Witness ==
    /\ status = "done"
    /\ nhandles = 1
    /\ Len(calls) = 2
    /\ calls[1].handle = calls[2].handle

====
